---- MODULE Spec2Model ----
(***************************************************************************)
(* errata2cv.py: Satellite 6 content-view errata updater.                  *)
(*                                                                         *)
(* main() is modelled as a sequential state machine.  Every action is the  *)
(* stretch of main() that ends with one API request (or with the end of a  *)
(* loop iteration); the server's answer to the request is the action's     *)
(* input, drawn from a small set, and includes the case where get_json /   *)
(* post_json raise (transport failure or a body that is not JSON).         *)
(* `trace` records, in order, every request of the current loop iteration  *)
(* together with the answer received, every sleep, and the log lines that  *)
(* report an outcome.                                                      *)
(***************************************************************************)
EXTENDS Integers, Sequences, FiniteSets, TLC

VARIABLES
    args,               \* args: the values of --cv, --severity and --from-date
    severity_search,    \* severity_search
    all_cvs,            \* the names of all_cvs, the listing of line 127
    from_date,          \* from_date
    cv_list,            \* cv_list.split(","): the names the main loop iterates over
    dry_run,            \* args["dry_run"]
    update_hosts,       \* args["update_hosts"]
    pc,                 \* position of main()
    idx,                \* position of cv_name in cv_list (1-based)
    cv,                 \* the content view returned by the lookup
    repo_i,             \* position of repo in cv["repositories"] (1-based)
    errata_ids,         \* errata_ids
    version,            \* the loop variable of line 188, which outlives its loop
    post_params,        \* the publish payload
    incremental_update, \* the task record received last
    progress,           \* progress, in thousandths of a percent
    polls,              \* polls done for the current task
    trace               \* requests, sleeps and log lines of the current iteration

vars == <<args, severity_search, all_cvs, from_date, cv_list, dry_run, update_hosts, pc, idx, cv, repo_i, errata_ids,
          version, post_params, incremental_update, progress, polls, trace>>

----------------------------------------------------------------------------
(* Bounds *)

MaxViews == 2       \* longest cv_list
MaxRepos == 2       \* most repositories of a content view
MaxVersions == 3    \* most versions of a content view
MaxPolls == 3       \* most polls of one publish task
MaxSeverity == 4    \* longest --severity value, in characters
MaxListed == 2      \* most content views in the listing of the organization

----------------------------------------------------------------------------
(* Values *)

LIBRARY == 1        \* the environment id tested at line 189 and sent at line 200

Range(s) == {s[k] : k \in 1..Len(s)}

Digits == <<"0", "1", "2", "3", "4", "5", "6", "7", "8", "9">>

Last(s) == s[Len(s)]

CvNames == <<"cv1", "cv2", "cv3", "cv4">>

ErrataResults == {<<>>, <<"RHSA-1">>, <<"RHSA-2", "RHSA-2">>}

\* the value of a name that was never assigned
Unbound == [id |-> 0, environment_ids |-> {}]

\* JSON null, None in Python
None == <<"None">>

NoCv == [repositories |-> <<>>, versions |-> <<>>, last_published |-> None]

NoParams == [errata_ids |-> <<>>, content_view_version_id |-> 0,
             environment_ids |-> <<>>]

NoTask == [pending |-> FALSE, result |-> "none", progress |-> 0]

\* task records the server can answer with: progress is in thousandths
\* (55 stands for 0.055, 1000 for 1.0)
PendingTasks == {[pending |-> TRUE, result |-> "pending", progress |-> p] :
                    p \in {55, 500}}

FinishedTasks == {[pending |-> FALSE, result |-> r, progress |-> 1000] :
                    r \in {"success", "error"}}

TaskRecords == PendingTasks \cup FinishedTasks

\* versions of the content view at position i: version ids are unique on
\* the server, so they differ from one view to the other
EnvSets == {{LIBRARY, 2}, {2}}

VersionLists(i) ==
    UNION {{[k \in 1..n |-> [id |-> 10 * i + k, environment_ids |-> e[k]]] :
                e \in [1..n -> EnvSets]} : n \in 0..MaxVersions}

\* last_published of the content view at position i, when it was published:
\* "202i-1i-0i 10:20:30 UTC"
LastPublished(i) ==
    <<"2", "0", "2", Digits[i + 1], "-", "1", Digits[i + 1], "-", "0",
      Digits[i + 1], " ", "1", "0", ":", "2", "0", ":", "3", "0", " ",
      "U", "T", "C">>

CvRecords(i) ==
    {[repositories |-> [k \in 1..n |-> 100 * i + k], versions |-> v,
      last_published |-> IF Len(v) = 0 THEN None ELSE LastPublished(i)] :
        n \in 0..MaxRepos, v \in VersionLists(i)}

\* the default of --severity, line 67
DefaultSeverity == <<"c", "r", "i", "t", "i", "c", "a", "l">>

\* the characters --severity values are made of
SeverityChars == {"l", "L", "o", "O", ","}

\* spellings of the keyword all
AllKeywords == {<<"a", "l", "l">>, <<"A", "L", "L">>, <<"A", "l", "l">>}

\* values of --from-date: not given, or a date
FromDates == {<<>>, <<"2", "0", "1", "9", "/", "0", "6", "/", "3", "0">>}

\* names of content views on the server; one of them contains a comma
ListedNames == {<<"b", "a", "s", "e">>, <<"w", "e", "b">>, <<"d", "b", ",", "e", "u">>}

\* answers to the listing of line 127: the names, in the server's order
Listings == UNION {[1..n -> ListedNames] : n \in 0..MaxListed}

\* one entry of trace
Ev(type, what, view) ==
    [type |-> type, what |-> what, view |-> view, ok |-> TRUE,
     ids |-> <<>>, n |-> 0, task |-> NoTask, search |-> <<>>]

Log(what, view) == Ev("LOG", what, view)

----------------------------------------------------------------------------
(* Pure parts of main() *)

\* sep.join(parts): a string is the sequence of the pieces it is put
\* together from, the separators being pieces of their own
Join(parts, sep) ==
    [k \in 1..(IF Len(parts) = 0 THEN 0 ELSE 2 * Len(parts) - 1) |->
        IF k % 2 = 1 THEN parts[(k + 1) \div 2] ELSE sep]

\* str.lower and str.upper on one character (a string is the sequence of
\* its characters, or of larger pieces that hold no letter to convert)
Lower(c) ==
    CASE c = "A" -> "a" [] c = "C" -> "c" [] c = "L" -> "l" [] c = "O" -> "o"
      [] OTHER -> c

Upper(c) ==
    CASE c = "a" -> "A" [] c = "c" -> "C" [] c = "l" -> "L" [] c = "o" -> "O"
      [] OTHER -> c

\* str.lower: the type of --severity (line 67), and line 120
str_lower(s) == [k \in 1..Len(s) |-> Lower(s[k])]

\* a capitalize that leaves the string as it is
capitalize_noop(s) == s

\* str.capitalize: first character upper case, the rest lower case
capitalize(s) ==
    [k \in 1..Len(s) |-> IF k = 1 THEN Upper(s[k]) ELSE Lower(s[k])]

\* s.split(sep): the stretches between the occurrences of sep, empty ones
\* included; the split of the empty string is one empty string
str_split(s, sep) ==
    LET P == {p \in 1..Len(s) : s[p] = sep}
        cut(k) == IF k = 0 THEN 0
                  ELSE IF k = Cardinality(P) + 1 THEN Len(s) + 1
                  ELSE CHOOSE p \in P : Cardinality({q \in P : q <= p}) = k
    IN  [k \in 1..(Cardinality(P) + 1) |-> SubSeq(s, cut(k - 1) + 1, cut(k) - 1)]

\* sep.join(parts) for parts that are strings themselves
RECURSIVE str_join(_, _)
str_join(parts, sep) ==
    IF Len(parts) = 0 THEN <<>>
    ELSE IF Len(parts) = 1 THEN parts[1]
    ELSE parts[1] \o <<sep>> \o str_join(Tail(parts), sep)

\* line 116: severity_search, from the lower-cased --severity
compose_severity_search(severity) ==
    <<"(severity = ">>
        \o str_join([k \in 1..Len(str_split(severity, ",")) |->
                        capitalize(str_split(severity, ",")[k])],
                    " or severity = ")
        \o <<")">>

\* the number a string of digits stands for
RECURSIVE Num(_)
Num(s) ==
    IF Len(s) = 0 THEN 0
    ELSE 10 * Num(SubSeq(s, 1, Len(s) - 1))
            + (CHOOSE d \in 0..9 : Digits[d + 1] = s[Len(s)])

\* n in w digits, zero-padded
Pad(n, w) == [k \in 1..w |-> Digits[((n \div (10 ^ (w - k))) % 10) + 1]]

\* datetime.strptime(s, "%Y-%m-%d  %X %Z"): the date of a timestamp
strptime(s) ==
    [year |-> Num(SubSeq(s, 1, 4)), month |-> Num(SubSeq(s, 6, 7)),
     day |-> Num(SubSeq(s, 9, 10))]

\* .strftime('%Y/%m/%d')
strftime(d) ==
    Pad(d.year, 4) \o <<"/">> \o Pad(d.month, 2) \o <<"/">> \o Pad(d.day, 2)

\* "1970-01-01 00:00:00 UTC", line 152
EPOCH ==
    <<"1", "9", "7", "0", "-", "0", "1", "-", "0", "1", " ", "0", "0", ":",
      "0", "0", ":", "0", "0", " ", "U", "T", "C">>

\* a from_date that always comes from last_published
from_date_of_published(arg, last_published) ==
    strftime(strptime(IF last_published = None THEN EPOCH ELSE last_published))

\* lines 149-155: from_date
from_date_of(arg, last_published) ==
    IF arg = <<>>
    THEN strftime(strptime(IF last_published = None THEN EPOCH
                           ELSE last_published))
    ELSE arg

\* the lower bound in the search of line 164
updated_after(date) == <<"updated > '">> \o date \o <<"'">>

\* a query that names the first erratum only
applicable_search_first(ids) ==
    <<"(applicable_errata=">> \o SubSeq(ids, 1, 1) \o <<")">>

\* line 230: applicable_search
applicable_search(ids) ==
    <<"(applicable_errata=">> \o Join(ids, " or applicable_errata=") \o <<")">>

\* line 229: environments_search
environments_search(hosts) ==
    <<"(lifecycle_environment=">> \o Join(<<hosts>>, " or lifecycle_environment=")
        \o <<")">>

\* line 231: search_query
search_query(hosts, ids) ==
    environments_search(hosts) \o <<" and ">> \o applicable_search(ids)

\* a list() without the set(): duplicates stay
list_set_keepdups(ids) == {ids}

\* list(set(errata_ids)): the distinct ids, in an order the set decides
list_set(ids) ==
    LET S == Range(ids)
    IN  {s \in [1..Cardinality(S) -> S] : Range(s) = S}

\* 1 in version["environment_ids"]
InLibrary(v) == LIBRARY \in v.environment_ids

\* the value of `version` after the loop of lines 188-192, which has no
\* break and no assignment of its own: the last element iterated, or what
\* the name held before when the list is empty
LoopVersion(prev, versions) ==
    IF Len(versions) = 0 THEN prev ELSE versions[Len(versions)]

\* "Selected content-view ... as baseline" is logged for every Library version
BaselineLogs(versions, view) ==
    LET lib == SelectSeq(versions, InLibrary)
    IN  [k \in 1..Len(lib) |-> [Log("baseline", view) EXCEPT !.n = lib[k].id]]

\* len(errata_ids) > 0
HasErrata(ids) == Len(ids) > 0

\* an except clause that names the request errors only
Caught_requests_only(exc) == exc = "RequestError"

\* the except clause of line 144 names no exception class
Caught(exc) == TRUE

\* a publish that ignores --dry-run
DoPublish_always(dry) == TRUE

\* if args["dry_run"] == False
DoPublish(dry) == dry = FALSE

\* a loop test with the sense inverted
KeepPolling_inverted(task) == task.pending = FALSE

\* while(incremental_update["pending"] != False)
KeepPolling(task) == task.pending # FALSE

\* no test of the task's result
PublishSucceeded_unchecked(task) == TRUE

\* incremental_update["result"] != "success" is the failure branch
PublishSucceeded(task) == task.result = "success"

\* if args["update_hosts"]
WantsHosts(hosts) == hosts # ""

\* >= 0 for > 0
TemplateFound_offbyone(n) == n >= 0

\* len(template_json["results"]) > 0
TemplateFound(n) == n > 0

\* the fraction logged without the * 100 of line 218
PercentI_fraction(p) == p \div 100000

\* "%i" % progress, progress = float(task["progress"]) * 100
PercentI(p) == p \div 1000

----------------------------------------------------------------------------
(* Control flow *)

\* a loop that starts over from the first name
NextView_rewind ==
    /\ idx' = 1
    /\ pc' = IF idx + 1 > Len(cv_list) THEN "done" ELSE "cv_lookup"

\* the for loop of line 133 takes the next name, or main() returns
NextView ==
    /\ idx' = idx + 1
    /\ pc' = IF idx + 1 > Len(cv_list) THEN "done" ELSE "cv_lookup"

\* an exception nobody catches ends the process
Crash == pc' = "crashed" /\ idx' = idx

\* the state main() starts from, for a set of argument values
InitWith(A) ==
    /\ args \in A
    /\ severity_search = <<>>
    /\ all_cvs = <<>>
    /\ from_date = <<>>
    /\ cv_list = <<>>
    /\ dry_run \in BOOLEAN
    /\ update_hosts \in {"", "Production"}
    /\ pc = "org"
    /\ idx = 1
    /\ cv = NoCv
    /\ repo_i = 1
    /\ errata_ids = <<>>
    /\ version = Unbound
    /\ post_params = NoParams
    /\ incremental_update = NoTask
    /\ progress = 0
    /\ polls = 0
    /\ trace = <<>>

\* --cv names one to MaxViews content views, --severity is left at its default
Init ==
    InitWith([cv : {Join(SubSeq(CvNames, 1, n), ",") : n \in 1..MaxViews},
              severity : {DefaultSeverity},
              from_date : FromDates])

\* --severity is any string of at most MaxSeverity characters
InitSeverity ==
    InitWith([cv : {<<"cv1">>},
              severity : UNION {[1..n -> SeverityChars] : n \in 0..MaxSeverity},
              from_date : {<<>>}])

\* --cv is the keyword all, in any letter case
InitAll ==
    InitWith([cv : AllKeywords,
              severity : {DefaultSeverity},
              from_date : {<<>>}])

\* lines 111-130: the organization lookup, the search strings and cv_list:
\* the names of --cv or, for the keyword all, the names of the listing
OrgLookup ==
    /\ pc = "org"
    /\ \/ /\ trace' = Append(trace, [Ev("GET", "org", 0) EXCEPT !.ok = FALSE])
          /\ pc' = "crashed"
          /\ UNCHANGED <<severity_search, all_cvs, cv_list>>
       \/ /\ severity_search' = compose_severity_search(str_lower(args.severity))
          /\ IF str_lower(args.cv) = <<"a", "l", "l">>
             THEN LET org == Ev("GET", "org", 0)
                      get == Ev("GET", "content_views", 0)
                  IN  \/ /\ trace' = trace \o <<org, [get EXCEPT !.ok = FALSE]>>
                         /\ pc' = "crashed"
                         /\ UNCHANGED <<all_cvs, cv_list>>
                      \/ \E names \in Listings :
                            /\ trace' = trace \o <<org, [get EXCEPT !.n = Len(names)]>>
                            /\ all_cvs' = names
                            /\ cv_list' = str_split(str_join(names, ","), ",")
                            /\ pc' = "cv_lookup"
             ELSE /\ trace' = Append(trace, Ev("GET", "org", 0))
                  /\ cv_list' = str_split(args.cv, ",")
                  /\ pc' = "cv_lookup"
                  /\ UNCHANGED all_cvs
    /\ UNCHANGED <<args, from_date, dry_run, update_hosts, idx, cv, repo_i,
                   errata_ids, version, post_params, incremental_update,
                   progress, polls>>

\* lines 133-172: a new iteration and the lookup of cv_name; ["results"][0]
\* raises IndexError on an empty list, get_json raises on a transport or
\* decode failure.  The names an iteration assigns before it reads them (cv,
\* from_date, repo, post_params, incremental_update, progress) start the iteration
\* cleared, as errata_ids does at line 135, and trace starts over: it holds
\* the events of one iteration.  `version` is not such a name and is kept.
CvLookup ==
    /\ pc = "cv_lookup"
    /\ errata_ids' = <<>>
    /\ repo_i' = 1
    /\ post_params' = NoParams
    /\ incremental_update' = NoTask
    /\ progress' = 0
    /\ polls' = 0
    /\ \/ /\ cv' = NoCv
          /\ from_date' = <<>>
          /\ \E exc \in {"IndexError", "RequestError"} :
                LET get == [Ev("GET", "cv", idx) EXCEPT
                                !.ok = (exc = "IndexError")]
                IN  IF Caught(exc)
                    THEN /\ trace' = <<get, Log("skip_missing", idx)>>
                         /\ NextView
                    ELSE /\ trace' = <<get>>
                         /\ Crash
       \/ \E c \in CvRecords(idx) :
            /\ cv' = c
            /\ from_date' = from_date_of(args.from_date, c.last_published)
            /\ trace' = <<[Ev("GET", "cv", idx) EXCEPT !.n = 1]>>
            /\ pc' = "errata"
            /\ idx' = idx
    /\ UNCHANGED <<args, severity_search, all_cvs, cv_list, dry_run,
                   update_hosts, version>>

\* lines 174-182: the errata query of one repository
ErrataQuery ==
    /\ pc = "errata"
    /\ repo_i <= Len(cv.repositories)
    /\ \/ /\ trace' = Append(trace, [Ev("GET", "errata", idx) EXCEPT
                                        !.ok = FALSE, !.n = cv.repositories[repo_i],
                                        !.search = updated_after(from_date)])
          /\ Crash
          /\ UNCHANGED <<errata_ids, repo_i>>
       \/ \E res \in ErrataResults :
            /\ trace' = Append(trace, [Ev("GET", "errata", idx) EXCEPT
                                        !.ids = res, !.n = cv.repositories[repo_i],
                                        !.search = updated_after(from_date)])
            /\ errata_ids' = errata_ids \o res
            /\ repo_i' = repo_i + 1
            /\ UNCHANGED <<pc, idx>>
    /\ UNCHANGED <<args, severity_search, all_cvs, from_date, cv_list, dry_run,
                   update_hosts, cv, version, post_params,
                   incremental_update, progress, polls>>

\* lines 184-212 and 256-260: after the last repository, deduplicate, pick the
\* baseline, compose the payload and, unless dry-run, POST it
Publish ==
    /\ pc = "errata"
    /\ repo_i > Len(cv.repositories)
    /\ \E ids \in list_set(errata_ids) :
        /\ errata_ids' = ids
        /\ IF HasErrata(ids)
           THEN LET v == LoopVersion(version, cv.versions)
                    logs == BaselineLogs(cv.versions, idx)
                    params == [errata_ids |-> ids,
                               content_view_version_id |-> v.id,
                               environment_ids |-> <<LIBRARY>>]
                    post == [Ev("POST", "publish", idx) EXCEPT
                                !.ids = ids, !.n = v.id]
                IN  /\ version' = v
                    /\ IF v = Unbound
                       THEN \* line 199: NameError, `version` was never assigned
                            /\ trace' = trace \o logs
                            /\ Crash
                            /\ UNCHANGED <<post_params, incremental_update,
                                           progress, polls>>
                       ELSE /\ post_params' = params
                            /\ IF DoPublish(dry_run)
                               THEN \/ /\ trace' = trace \o logs \o
                                                <<[post EXCEPT !.ok = FALSE]>>
                                       /\ Crash
                                       /\ UNCHANGED <<incremental_update,
                                                      progress, polls>>
                                    \/ \E t \in TaskRecords :
                                        /\ trace' = trace \o logs \o
                                                <<[post EXCEPT !.task = t]>>
                                        /\ incremental_update' = t
                                        /\ progress' = 0
                                        /\ polls' = 0
                                        /\ pc' = "polling"
                                        /\ idx' = idx
                               ELSE /\ trace' = trace \o logs \o
                                            <<Log("dry_run_skip", idx),
                                              Log("finished", idx)>>
                                    /\ NextView
                                    /\ UNCHANGED <<incremental_update,
                                                   progress, polls>>
           ELSE /\ trace' = Append(trace, Log("no_errata", idx))
                /\ NextView
                /\ UNCHANGED <<version, post_params, incremental_update,
                               progress, polls>>
    /\ UNCHANGED <<args, severity_search, all_cvs, from_date, cv_list, dry_run,
                   update_hosts, cv, repo_i>>

\* lines 213-218: one turn of the polling loop
Poll ==
    /\ pc = "polling"
    /\ KeepPolling(incremental_update)
    /\ polls < MaxPolls
    /\ polls' = polls + 1
    /\ LET said == [Log("progress", idx) EXCEPT !.n = PercentI(progress)]
           slept == Ev("SLEEP", "sleep", idx)
           get == Ev("GET", "task", idx)
       IN  \/ /\ trace' = trace \o <<said, slept, [get EXCEPT !.ok = FALSE]>>
              /\ Crash
              /\ UNCHANGED <<incremental_update, progress>>
           \/ \E t \in TaskRecords :
                /\ trace' = trace \o <<said, slept, [get EXCEPT !.task = t]>>
                /\ incremental_update' = t
                /\ progress' = t.progress * 100
                /\ UNCHANGED <<pc, idx>>
    /\ UNCHANGED <<args, severity_search, all_cvs, from_date, cv_list, dry_run,
                   update_hosts, cv, repo_i, errata_ids,
                   version, post_params>>

\* lines 220-236 and 252-258: the task has finished; on success, and if host
\* environments were given, look the job template up
TemplateLookup ==
    /\ pc = "polling"
    /\ ~KeepPolling(incremental_update)
    /\ IF ~PublishSucceeded(incremental_update)
       THEN /\ trace' = Append(trace, Log("publish_error", idx))
            /\ NextView
       ELSE IF WantsHosts(update_hosts)
       THEN LET get == Ev("GET", "template", idx)
            IN  \/ /\ trace' = Append(trace, [get EXCEPT !.ok = FALSE])
                   /\ Crash
                \/ \E n \in 0..2 :
                    IF TemplateFound(n)
                    THEN /\ trace' = Append(trace, [get EXCEPT !.n = n])
                         /\ pc' = "job"
                         /\ idx' = idx
                    ELSE /\ trace' = trace \o <<[get EXCEPT !.n = n],
                                                Log("no_template", idx),
                                                Log("finished", idx)>>
                         /\ NextView
       ELSE /\ trace' = Append(trace, Log("finished", idx))
            /\ NextView
    /\ UNCHANGED <<args, severity_search, all_cvs, from_date, cv_list, dry_run,
                   update_hosts, cv, repo_i, errata_ids,
                   version, post_params, incremental_update, progress, polls>>

\* lines 238-251 and 258: invoke the job
JobPost ==
    /\ pc = "job"
    /\ LET post == [Ev("POST", "job", idx) EXCEPT
                        !.ids = Join(errata_ids, ","),
                        !.search = search_query(update_hosts, errata_ids)]
       IN  \/ /\ trace' = Append(trace, [post EXCEPT !.ok = FALSE])
              /\ Crash
           \/ /\ trace' = trace \o <<post, Log("finished", idx)>>
              /\ NextView
    /\ UNCHANGED <<args, severity_search, all_cvs, from_date, cv_list, dry_run,
                   update_hosts, cv, repo_i, errata_ids,
                   version, post_params, incremental_update, progress, polls>>

Next ==
    \/ OrgLookup
    \/ CvLookup
    \/ ErrataQuery
    \/ Publish
    \/ Poll
    \/ TemplateLookup
    \/ JobPost

Spec == Init /\ [][Next]_vars

\* the start of main() up to the main loop, for every value of --severity
SpecSeverity == InitSeverity /\ [][OrgLookup]_vars

\* the start of main() up to the main loop, for --cv all
SpecAll == InitAll /\ [][OrgLookup]_vars

----------------------------------------------------------------------------
(* Reading trace *)

TypeOK ==
    /\ pc \in {"org", "cv_lookup", "errata", "polling", "job", "done", "crashed"}
    /\ idx \in 1..(Len(cv_list) + 1)
    /\ polls \in 0..MaxPolls

Pos == 1..Len(trace)

\* the positions of the events of one kind
At(what) == {k \in Pos : trace[k].what = what}

\* the main loop has left the iteration of `view` for the next name, or has
\* returned after the last one
MovedOn(view) ==
    /\ idx = view + 1
    /\ pc = IF idx > Len(cv_list) THEN "done" ELSE "cv_lookup"

\* a task record was received: the answer to the publish POST or to a poll
TaskAnswer(e) == e.what \in {"publish", "task"} /\ e.ok

TaskRecs == SelectSeq(trace, TaskAnswer)

IsProgressLog(e) == e.what = "progress"

\* the percentages logged by line 214, in order
Logged ==
    LET l == SelectSeq(trace, IsProgressLog) IN [k \in 1..Len(l) |-> l[k].n]

\* the ids the errata queries of this view returned
Collected == UNION {Range(trace[k].ids) : k \in At("errata")}

NoDuplicates(s) == \A i, j \in 1..Len(s) : i # j => s[i] # s[j]

\* every repository of the view was queried and the step after the scan
\* (lines 184-212) was taken
ScanDone ==
    /\ At("cv") # {}
    /\ \A k \in At("cv") : trace[k].ok /\ trace[k].n > 0
    /\ Cardinality({k \in At("errata") : trace[k].ok}) = Len(cv.repositories)
    /\ pc # "errata"

----------------------------------------------------------------------------
(* Claims *)

\* C1: the content_view_version_id of a publish payload is the id of the
\* version of that view whose environment_ids contains the Library id 1,
\* wherever that version stands in the versions list (stated for the views
\* that have exactly one such version).
C1_BaselineIsLibraryVersion ==
    \A k \in At("publish") :
        \A v \in Range(cv.versions) :
            (InLibrary(v) /\ \A w \in Range(cv.versions) : InLibrary(w) => w = v)
                => trace[k].n = v.id

\* C2: with --dry-run no publish POST and no job-invocation POST is issued,
\* and once the skip is logged for a view with errata the loop is at the
\* next view.
C2_DryRunIssuesNoPost ==
    dry_run =>
        /\ \A k \in Pos : trace[k].type # "POST"
        /\ \A k \in At("dry_run_skip") : MovedOn(trace[k].view)

C2_Witness ==
    /\ dry_run
    /\ Collected # {}
    /\ At("dry_run_skip") # {}
    /\ pc = "cv_lookup"

\* C3: when the publish task ends with pending = false and a result other
\* than "success", no template lookup and no job POST is issued for the view,
\* the run does not abort and goes on with the next view.
C3_FailedPublishSkipsInstall ==
    \A k \in Pos :
        (TaskAnswer(trace[k]) /\ trace[k].task.pending = FALSE
                              /\ trace[k].task.result # "success")
            => /\ At("template") = {} /\ At("job") = {}
               /\ pc # "crashed"
               /\ pc = "polling" \/ (MovedOn(trace[k].view) /\ At("publish_error") # {})

C3_Witness ==
    /\ \E k \in Pos : TaskAnswer(trace[k]) /\ trace[k].task.result = "error"
    /\ At("publish_error") # {}
    /\ update_hosts # ""
    /\ pc = "cv_lookup"

\* C4: while the task record received last has pending = true the program is
\* in the polling loop: what follows such a record is a progress log, a
\* sleep and a poll of the same view, however many polls were made before; no
\* template lookup, job POST or request of a later view comes in between.
C4_PollsWhilePending ==
    \A k \in Pos :
        (TaskAnswer(trace[k]) /\ trace[k].task.pending = TRUE)
            => IF k = Len(trace)
               THEN pc = "polling" /\ idx = trace[k].view
               ELSE /\ k + 3 <= Len(trace)
                    /\ trace[k + 1].what = "progress"
                    /\ trace[k + 2].what = "sleep"
                    /\ trace[k + 3].what = "task"
                    /\ trace[k + 3].view = trace[k].view

C4_Witness ==
    /\ pc = "polling"
    /\ polls = MaxPolls
    /\ incremental_update.pending = TRUE
    /\ \A k \in 1..Len(TaskRecs) : TaskRecs[k].task.pending = TRUE

\* the task reported pending = true twice (to the POST and to the first poll)
\* and then pending = false with result "success"
TwicePendingThenSuccess ==
    /\ Len(TaskRecs) = 3
    /\ TaskRecs[1].task.pending = TRUE
    /\ TaskRecs[2].task.pending = TRUE
    /\ TaskRecs[3].task.pending = FALSE
    /\ TaskRecs[3].task.result = "success"

\* C5 as stated: then exactly two sleep/poll cycles are executed and the
\* progress logged is 0% followed by the percentages of the two pending
\* responses.
C5_LogsBothPendingResponses ==
    TwicePendingThenSuccess =>
        /\ Cardinality(At("sleep")) = 2
        /\ Logged = <<0, (TaskRecs[1].task.progress * 100) \div 1000,
                         (TaskRecs[2].task.progress * 100) \div 1000>>

\* C5 amended: then exactly two sleep/poll cycles are executed and the
\* progress logged is 0% followed by one percentage, the integer part of
\* progress * 100 of the pending poll response; the progress of the POST's
\* answer is not logged.
C5_LogsZeroThenPolledProgress ==
    TwicePendingThenSuccess =>
        /\ Cardinality(At("sleep")) = 2
        /\ Cardinality(At("task")) = 2
        /\ Logged = <<0, (TaskRecs[2].task.progress * 100) \div 1000>>

C5_Witness ==
    /\ TwicePendingThenSuccess
    /\ TaskRecs[1].task.progress # TaskRecs[2].task.progress
    /\ pc = "job"

\* C6: a view gets a publish POST if and only if at least one errata id was
\* collected from its repositories and dry-run is off, and then exactly one;
\* a view without errata gets no POST of any kind.
C6_PublishIffErrata ==
    ScanDone =>
        /\ Cardinality(At("publish")) =
                IF Collected # {} /\ ~dry_run THEN 1 ELSE 0
        /\ Collected = {} => \A k \in Pos : trace[k].type # "POST"

\* C7: the errata_ids of a publish payload hold each id once and are, as a
\* set, the union of what the errata queries of the view's repositories
\* returned.
C7_PayloadIsDeduplicatedUnion ==
    \A k \in At("publish") :
        /\ NoDuplicates(trace[k].ids)
        /\ Range(trace[k].ids) = Collected

C7_Witness ==
    /\ At("publish") # {}
    /\ \E k \in At("errata") : ~NoDuplicates(trace[k].ids)
    /\ \E j, k \in At("errata") :
            j # k /\ Range(trace[j].ids) \cap Range(trace[k].ids) # {}

\* C8: when the lookup of a name returns an empty result list the view is
\* skipped with a warning, nothing else is requested for it, and the loop
\* goes on with the next name (the run ends normally after the last).
C8_MissingViewIsSkipped ==
    \A k \in At("cv") :
        (trace[k].ok /\ trace[k].n = 0)
            => /\ trace = <<trace[k], Log("skip_missing", trace[k].view)>>
               /\ MovedOn(trace[k].view)

C8_Witness ==
    /\ \E k \in At("cv") : trace[k].ok /\ trace[k].n = 0 /\ trace[k].view = 1
    /\ Len(cv_list) > 1
    /\ pc = "cv_lookup"

\* C9: a transport or decode failure of any request ends the process at
\* once: the failed request is the last thing the run did.
C9_FailureTerminates ==
    \A k \in Pos :
        trace[k].ok = FALSE => (k = Len(trace) /\ pc = "crashed")

\* C10: a job POST is issued only after a task record with result "success",
\* with host environments configured and a template lookup that returned a
\* result; a lookup without result issues no job POST, does not end the run
\* and moves on to the next view; no view gets two job POSTs.
C10_JobOnlyWithTemplate ==
    /\ \A k \in At("job") :
        /\ update_hosts # ""
        /\ Last(TaskRecs).task.pending = FALSE
        /\ Last(TaskRecs).task.result = "success"
        /\ \E j \in At("template") : j < k /\ trace[j].ok /\ trace[j].n > 0
    /\ \A j \in At("template") :
        (trace[j].ok /\ trace[j].n = 0)
            => At("job") = {} /\ MovedOn(trace[j].view)
    /\ Cardinality(At("job")) <= 1

C10_Witness ==
    /\ \E k \in At("job") : trace[k].ok
    /\ pc = "cv_lookup"

\* the run has ended, by return or by an exception nobody caught
Ended == pc \in {"done", "crashed"}

\* C11: if every request returns and every publish task ends, the run
\* terminates having processed every name of the list: a run that has ended
\* without a failed request has returned from main() past the last name.
C11_RunEndsPastLastName ==
    (Ended /\ \A k \in Pos : trace[k].ok)
        => (pc = "done" /\ idx = Len(cv_list) + 1)

\* C14: the baseline version id of a view's publish payload is the id of one
\* of that view's own versions, also when its versions list is empty.
C14_BaselineIsOwnVersion ==
    \A k \in At("publish") :
        \E v \in Range(cv.versions) : trace[k].n = v.id

\* the ids of the Library versions of the current view, in list order
LibraryIds ==
    LET lib == SelectSeq(cv.versions, InLibrary)
    IN  [k \in 1..Len(lib) |-> lib[k].id]

\* C15: when several versions of the view are in Library, the baseline sent
\* is the last of them in list order, not a version outside Library.
C15_LastLibraryVersionWins ==
    \A k \in At("publish") :
        Len(LibraryIds) > 1 => trace[k].n = Last(LibraryIds)

\* C16: views are processed one at a time in list order: the events of an
\* iteration all belong to the name at idx (idx - 1 once the loop has moved
\* on), idx never goes back, and within a view the errata queries come in
\* repository order, all of them before the publish POST.
C16_OneViewAtATimeInOrder ==
    /\ [](/\ \A k \in Pos :
                \/ trace[k].what = "org" /\ trace[k].view = 0
                \/ trace[k].view = idx /\ pc \notin {"cv_lookup", "done"}
                \/ trace[k].view = idx - 1 /\ pc \in {"cv_lookup", "done"}
          /\ \A k \in At("errata") :
                /\ trace[k].n = cv.repositories[Cardinality({j \in At("errata") : j <= k})]
                /\ \A j \in At("publish") : k < j
          /\ At("publish") # {} =>
                Cardinality(At("errata")) = Len(cv.repositories))
    /\ [][idx' \in {idx, idx + 1}]_vars

C16_Witness ==
    /\ idx = 2
    /\ Cardinality(At("errata")) = 2
    /\ At("publish") # {}
    /\ \E k \in Pos : trace[k].what = "task" /\ trace[k].view = 2

\* the pieces of s that stand right after a piece of keys, in order
TermsAfter(s, keys) ==
    LET P == {p \in 1..Len(s) : s[p] \in keys}
        nth(k) == CHOOSE p \in P : Cardinality({q \in P : q <= p}) = k
    IN  [k \in 1..Cardinality(P) |-> s[nth(k) + 1]]

\* C18: a job POST comes, in the same iteration, after the view's publish
\* POST and after a task record with pending = false and result "success",
\* and its errata input and its applicable_errata terms are the ids of the
\* publish payload, in the same order.
C18_JobFollowsPublishWithSameIds ==
    \A k \in At("job") :
        \E j \in At("publish") :
            /\ j < k
            /\ trace[j].view = trace[k].view
            /\ \E t \in Pos :
                /\ j <= t /\ t < k
                /\ TaskAnswer(trace[t])
                /\ trace[t].task.pending = FALSE
                /\ trace[t].task.result = "success"
            /\ TermsAfter(<<",">> \o trace[k].ids, {","}) = trace[j].ids
            /\ TermsAfter(trace[k].search,
                          {"(applicable_errata=", " or applicable_errata="})
                    = trace[j].ids

C18_Witness ==
    /\ \E k \in At("job") : Len(trace[k].ids) > 1 /\ trace[k].view = 2
    /\ pc = "done"

\* C12: the severity search is "(severity = T1 or severity = T2 ...)", one
\* Ti for each comma-separated token of --severity as typed, Ti being the
\* token with its first letter in upper case and the rest in lower case.
C12_SeverityIsTitleCased ==
    pc = "cv_lookup" =>
        LET n == Len(severity_search)
            typed == str_split(args.severity, ",")
            got == str_split(SubSeq(severity_search, 2, n - 1), " or severity = ")
        IN  /\ n >= 2
            /\ severity_search[1] = "(severity = "
            /\ severity_search[n] = ")"
            /\ Len(got) = Len(typed)
            /\ \A k \in 1..Len(typed) :
                /\ Len(got[k]) = Len(typed[k])
                /\ \A j \in 1..Len(typed[k]) :
                    got[k][j] = IF j = 1 THEN Upper(typed[k][j])
                                ELSE Lower(typed[k][j])

C12_Witness ==
    /\ pc = "cv_lookup"
    /\ args.severity = <<"l", "O", ",", "o">>
    /\ severity_search =
            <<"(severity = ", "L", "o", " or severity = ", "O", ")">>

\* the lower bound C13 states for the current view
StatedFromDate ==
    IF args.from_date # <<>> THEN args.from_date
    ELSE IF cv.last_published = None
    THEN <<"1", "9", "7", "0", "/", "0", "1", "/", "0", "1">>
    ELSE [k \in 1..10 |-> IF cv.last_published[k] = "-" THEN "/"
                          ELSE cv.last_published[k]]

\* C13: the lower date bound of a view's errata search is --from-date as
\* given when it is not empty, otherwise the date of that view's own
\* last_published written YYYY/MM/DD, and 1970/01/01 when that is null.
C13_LowerBoundOfSearch ==
    \A k \in At("errata") :
        trace[k].search = <<"updated > '">> \o StatedFromDate \o <<"'">>

C13_Witness ==
    /\ idx = 2
    /\ args.from_date = <<>>
    /\ cv.last_published # None
    /\ At("errata") # {}

\* C17: with --cv all the names the main loop goes through are the names of
\* the listing, each one whole and once, and no other name.
C17_LoopTakesListedNames ==
    (pc = "cv_lookup" /\ str_lower(args.cv) = <<"a", "l", "l">>)
        => cv_list = all_cvs

====
